---- MODULE Spec2Model ----
(***************************************************************************)
(* A model of nhooyr/cli: the recursive resolution-and-dispatch engine     *)
(* (cli.go, Run / run), the per-node flag set and help renderer            *)
(* (initFlagSet, usage, countFlags, Helpf), the example leaf command       *)
(* (examplecli.go, lsCmd.Run) and the registering tree builder             *)
(* (cli.go, Tree.Branch / Tree.Leaf / Run over a Tree).                    *)
(*                                                                         *)
(* Strings are TLA+ strings; a token of the argument list is a string and  *)
(* is scanned character by character as flag.FlagSet.Parse scans it.       *)
(***************************************************************************)
EXTENDS Integers, Sequences, FiniteSets, TLC

(***************************************************************************)
(* Bounds of the model.                                                    *)
(***************************************************************************)
\* Longest argument list (os.Args[1:]) explored.
MaxArgs == 4

\* Most successful registrations (Tree.Branch / Tree.Leaf) of one tree.
MaxRegs == 3

\* Longest argument list explored when a registered tree is dispatched.
MaxTreeArgs == 2

\* Longest argument list explored when termination is checked.
MaxLiveArgs == 3

(***************************************************************************)
(* Strings.                                                                *)
(***************************************************************************)
\* s[i] of Go, 1-based, as a one-character string.
Ch(s, i) == SubSeq(s, i, i)

\* %q of fmt for a string without characters that need escaping.
Quote(s) == "\"" \o s \o "\""

\* The index of the first '=' of name at position 2 or later, 0 when none
\* ("equals cannot be first").
RECURSIVE EqFrom(_, _)
EqFrom(name, i) ==
    IF i > Len(name) THEN 0
    ELSE IF Ch(name, i) = "=" THEN i
    ELSE EqFrom(name, i + 1)

EqIndex(name) == EqFrom(name, 2)

Digits == {"0", "1", "2", "3", "4", "5", "6", "7", "8", "9"}

DigitVal(c) ==
    CASE c = "0" -> 0 [] c = "1" -> 1 [] c = "2" -> 2 [] c = "3" -> 3
      [] c = "4" -> 4 [] c = "5" -> 5 [] c = "6" -> 6 [] c = "7" -> 7
      [] c = "8" -> 8 [] c = "9" -> 9

RECURSIVE AllDigits(_)
AllDigits(s) ==
    IF Len(s) = 0 THEN TRUE
    ELSE Ch(s, 1) \in Digits /\ AllDigits(Tail(s))

RECURSIVE DecVal(_, _)
DecVal(s, acc) ==
    IF Len(s) = 0 THEN acc
    ELSE DecVal(Tail(s), 10 * acc + DigitVal(Ch(s, 1)))

\* strconv.ParseInt(s, 0, 64) on decimal text with an optional sign:
\* <<ok, value>>.
ParseInt(s) ==
    LET signed == Len(s) > 0 /\ Ch(s, 1) \in {"-", "+"}
        body   == IF signed THEN Tail(s) ELSE s
    IN  IF Len(body) = 0 \/ ~AllDigits(body) THEN <<FALSE, 0>>
        ELSE IF signed /\ Ch(s, 1) = "-" THEN <<TRUE, 0 - DecVal(body, 0)>>
        ELSE <<TRUE, DecVal(body, 0)>>

\* strconv.ParseBool: <<ok, value>>.
ParseBool(s) ==
    IF s \in {"1", "t", "T", "TRUE", "true", "True"} THEN <<TRUE, TRUE>>
    ELSE IF s \in {"0", "f", "F", "FALSE", "false", "False"} THEN <<TRUE, FALSE>>
    ELSE <<FALSE, FALSE>>

(***************************************************************************)
(* The declared command tree: the example program's root and its ls leaf,  *)
(* extended by a nested branch whose children reuse the names "ls" and     *)
(* "app" (the root's own name), so that depth and name reuse are covered.  *)
(***************************************************************************)
\* var Version = "<dev>"
Version == "<dev>"

CmdIds == {"root", "ls", "sub", "sub_ls", "sub_app"}

\* The node a Run call is given.
RootId == "root"

LeafKind == "Leaf"

BranchKind == "Branch"

\* f.IntVar(&rootCmd.fail, "fail", -1, "Exit with given status.")
FailFlag ==
    [name |-> "fail", kind |-> "int", def |-> -1, var |-> "rootCmd.fail",
     help |-> "Exit with given status."]

\* f.BoolVar(&lsCmd.long, "l", false, "Use long format."), one lsCmd per owner.
LongFlag(owner) ==
    [name |-> "l", kind |-> "bool", def |-> FALSE, var |-> owner \o ".long",
     help |-> "Use long format."]

\* Name(), Desc() (its lines), Usage(), Flags() and Subcommands() of each
\* command, with the interface (Leaf or Branch) it implements.
Cmd(id) ==
    CASE id = "root" ->
           [name |-> "app", kind |-> BranchKind,
            desc |-> <<"My awesome description.">>, argsUsage |-> "",
            flags |-> <<FailFlag>>, subs |-> <<"sub", "ls">>]
      [] id = "ls" ->
           [name |-> "ls", kind |-> LeafKind,
            desc |-> <<"My super awesome desc.">>, argsUsage |-> "<dir>",
            flags |-> <<LongFlag("ls")>>, subs |-> <<>>]
      [] id = "sub" ->
           [name |-> "sub", kind |-> BranchKind,
            desc |-> <<>>, argsUsage |-> "",
            flags |-> <<>>, subs |-> <<"sub_ls", "sub_app">>]
      [] id = "sub_ls" ->
           [name |-> "ls", kind |-> LeafKind,
            desc |-> <<"My super awesome desc.", "Second line.">>,
            argsUsage |-> "<dir>",
            flags |-> <<LongFlag("sub_ls")>>, subs |-> <<>>]
      [] id = "sub_app" ->
           [name |-> "app", kind |-> LeafKind,
            desc |-> <<"Same name as the root.">>, argsUsage |-> "",
            flags |-> <<>>, subs |-> <<>>]

\* The storage the flags write into: the commands' struct fields.
Vars == {"rootCmd.fail", "ls.long", "sub_ls.long", "sub_app.long"}

\* The local variable of run that the root's -version flag is bound to.
VersionVar == "run.version"

\* Go's zero values of the struct fields, before any Flags call.
ZeroBound == [v \in Vars |-> IF v = "rootCmd.fail" THEN 0 ELSE FALSE]

\* The tokens an argument list is made of.
Tokens ==
    {"ls", "lsx", "sub", "app", "/tmp", "3",
     "-l", "-fail", "-version", "--version", "-h", "--"}

\* The sequences over S of length n or less.
SeqsUpTo(S, n) == UNION {[1..k -> S] : k \in 0..n}

ArgLists == SeqsUpTo(Tokens, MaxArgs)

(***************************************************************************)
(* The flag set: package flag of the standard library, as run uses it      *)
(* (flag.NewFlagSet(fullname, flag.ContinueOnError), f.Bool, f.Parse,      *)
(* f.Args, f.Arg, f.NArg, f.VisitAll).                                     *)
(***************************************************************************)
\* The flag "version" that run adds to the root's flag set.
VersionFlag ==
    [name |-> "version", kind |-> "bool", def |-> FALSE, var |-> VersionVar,
     help |-> "Print version and exit."]

\* The index of the flag called name in the flag set's formal flags, 0 when
\* it is not defined.
RECURSIVE LookupFrom(_, _, _)
LookupFrom(formal, name, i) ==
    IF i > Len(formal) THEN 0
    ELSE IF formal[i].name = name THEN i
    ELSE LookupFrom(formal, name, i + 1)

Lookup(formal, name) == LookupFrom(formal, name, 1)

\* Registering the flags writes each default into its variable (IntVar,
\* BoolVar and Bool assign *p = value).
RECURSIVE Register(_, _, _)
Register(formal, st, i) ==
    IF i > Len(formal) THEN st
    ELSE Register(formal, [st EXCEPT ![formal[i].var] = formal[i].def], i + 1)

ParseOk(st, rest) == [err |-> "", st |-> st, rest |-> rest, usage |-> 0]

\* failf: the error is printed, the flag set's usage is called, the error is
\* returned; the help request calls usage and returns ErrHelp.
ParseFail(msg, st, rest) == [err |-> msg, st |-> st, rest |-> rest, usage |-> 1]

ErrHelp == "flag: help requested"

\* f.Parse(args): parseOne until it reports no further flag or an error.
\* st holds the values of the variables the flags are bound to.
RECURSIVE Parse(_, _, _)
Parse(formal, st, a) ==
    IF Len(a) = 0 THEN ParseOk(st, a)
    ELSE
    LET s == Head(a) IN
    IF Len(s) < 2 \/ Ch(s, 1) # "-" THEN ParseOk(st, a)
    ELSE
    LET numMinuses == IF Ch(s, 2) = "-" THEN 2 ELSE 1 IN
    IF numMinuses = 2 /\ Len(s) = 2 THEN ParseOk(st, Tail(a))
    ELSE
    LET name0 == SubSeq(s, numMinuses + 1, Len(s)) IN
    IF Len(name0) = 0 \/ Ch(name0, 1) = "-" \/ Ch(name0, 1) = "="
    THEN ParseFail("bad flag syntax: " \o s, st, a)
    ELSE
    LET eq       == EqIndex(name0)
        name     == IF eq > 0 THEN SubSeq(name0, 1, eq - 1) ELSE name0
        a1       == Tail(a)
        i        == Lookup(formal, name)
    IN
    IF i = 0 THEN
        IF name = "help" \/ name = "h"
        THEN ParseFail(ErrHelp, st, a1)
        ELSE ParseFail("flag provided but not defined: -" \o name, st, a1)
    ELSE IF formal[i].kind = "bool" THEN
        LET b == ParseBool(IF eq > 0 THEN SubSeq(name0, eq + 1, Len(name0)) ELSE "true")
        IN  IF ~b[1]
            THEN ParseFail("invalid boolean value for -" \o name, st, a1)
            ELSE Parse(formal, [st EXCEPT ![formal[i].var] = b[2]], a1)
    ELSE
        LET hasValue == eq > 0 \/ Len(a1) > 0
            value    == IF eq > 0 THEN SubSeq(name0, eq + 1, Len(name0))
                        ELSE IF Len(a1) > 0 THEN Head(a1) ELSE ""
            a2       == IF eq > 0 \/ Len(a1) = 0 THEN a1 ELSE Tail(a1)
            n        == ParseInt(value)
        IN  IF ~hasValue
            THEN ParseFail("flag needs an argument: -" \o name, st, a1)
            ELSE IF ~n[1]
            THEN ParseFail("invalid value " \o Quote(value) \o " for flag -" \o name, st, a2)
            ELSE Parse(formal, [st EXCEPT ![formal[i].var] = n[2]], a2)

\* countFlags: the number of flags VisitAll visits.
countFlags(formal) == Len(formal)

\* f.Arg(i), 0-based: the i-th remaining argument, "" when there is none.
Arg(posargs, i) == IF i + 1 <= Len(posargs) THEN posargs[i + 1] ELSE ""

(***************************************************************************)
(* The help renderer: the Usage closure initFlagSet installs.  The block   *)
(* is kept as its parts, in the order they are written; flags holds the    *)
(* names PrintDefaults prints and subcommands the rows of the table.       *)
(***************************************************************************)
RECURSIVE Join(_)
Join(parts) ==
    IF Len(parts) = 0 THEN ""
    ELSE IF Len(parts) = 1 THEN parts[1]
    ELSE parts[1] \o " " \o Join(Tail(parts))

\* usage(cmd, f): "[flags...]" when the flag set holds a flag, then the
\* leaf's Usage() (skipped when empty) or "<subcmd>" for a branch.
usage(id, formal) ==
    Join((IF countFlags(formal) > 0 THEN <<"[flags...]">> ELSE <<>>)
         \o (IF Cmd(id).kind = LeafKind
             THEN (IF Cmd(id).argsUsage = "" THEN <<>> ELSE <<Cmd(id).argsUsage>>)
             ELSE <<"<subcmd>">>))

\* strings.Split(subcmd.Desc(), "\n")[0]
Summary(desc) == IF Len(desc) = 0 THEN "" ELSE desc[1]

\* One row of the subcommand table: the child's name, its usage computed on
\* a throwaway flag set holding the child's own flags, and its summary.
HelpRow(sub) ==
    [name |-> Cmd(sub).name, usage |-> usage(sub, Cmd(sub).flags),
     summary |-> Summary(Cmd(sub).desc)]

\* The same rows written in another order than Subcommands() returns them.
RECURSIVE HelpRowsReordered(_)
HelpRowsReordered(subs) ==
    IF Len(subs) = 0 THEN <<>>
    ELSE Append(HelpRowsReordered(Tail(subs)), HelpRow(Head(subs)))

\* for _, subcmd := range cmd.Subcommands() { ... }
RECURSIVE HelpRows(_)
HelpRows(subs) ==
    IF Len(subs) = 0 THEN <<>>
    ELSE <<HelpRow(Head(subs))>> \o HelpRows(Tail(subs))

RECURSIVE FlagNames(_)
FlagNames(formal) ==
    IF Len(formal) = 0 THEN {}
    ELSE {Head(formal).name} \cup FlagNames(Tail(formal))

\* fullname == cmd.Name(), which holds of the root only.
IsRootAnyNameMatch(fullname, id) == Cmd(id).name = Cmd(RootId).name

IsRoot(fullname, id) == fullname = Cmd(id).name

\* The Version line written for every node that bears the root's name.
HelpBlockVersionByName(fullname, id, formal) ==
    [usage       |-> fullname \o " " \o usage(id, formal),
     version     |-> IF Cmd(id).name = Cmd(RootId).name THEN <<Version>> ELSE <<>>,
     desc        |-> Cmd(id).desc,
     flags       |-> IF countFlags(formal) > 0 THEN FlagNames(formal) ELSE {},
     branch      |-> Cmd(id).kind = BranchKind,
     subcommands |-> IF Cmd(id).kind = BranchKind THEN HelpRows(Cmd(id).subs)
                     ELSE <<>>]

\* The block f.Usage writes to os.Stderr.
HelpBlock(fullname, id, formal) ==
    [usage       |-> fullname \o " " \o usage(id, formal),
     version     |-> IF IsRoot(fullname, id) THEN <<Version>> ELSE <<>>,
     desc        |-> Cmd(id).desc,
     flags       |-> IF countFlags(formal) > 0 THEN FlagNames(formal) ELSE {},
     branch      |-> Cmd(id).kind = BranchKind,
     subcommands |-> IF Cmd(id).kind = BranchKind THEN HelpRows(Cmd(id).subs)
                     ELSE <<>>]

NoBlock ==
    [usage |-> "", version |-> <<>>, desc |-> <<>>, flags |-> {},
     branch |-> FALSE, subcommands |-> <<>>]

\* What is written to the error stream: a message of log.Printf or of the
\* flag set's failf, or a help block.
LogLine(text) == [kind |-> "log", text |-> text, block |-> NoBlock]

FlagLine(text) == [kind |-> "flag", text |-> text, block |-> NoBlock]

HelpOut(block) == [kind |-> "help", text |-> "", block |-> block]

\* Helpf(ctx, msg, v...): the message, then the usage bound in ctx.
Helpf(msg, block) == <<LogLine(msg), HelpOut(block)>>

(***************************************************************************)
(* The dispatcher: one call of run(ctx, args, cmd).                        *)
(***************************************************************************)
\* The flag set of initFlagSet with cmd.Flags(f) applied, and the version
\* flag run adds at the root.
Formal(fullname, id) ==
    Cmd(id).flags \o (IF IsRoot(fullname, id) THEN <<VersionFlag>> ELSE <<>>)

\* len(args) < 1, the test of the earlier run over a Tree.
MissingSubcommandByArgs(args, posargs) == Len(args) < 1

\* f.NArg() < 1
MissingSubcommand(args, posargs) == Len(posargs) < 1

\* args[0], what the earlier run over a Tree printed.
RequestedNameByArgs(args, posargs) == args[1]

\* f.Arg(0), the requested child name
RequestedName(args, posargs) == Arg(posargs, 0)

\* The first subcommand whose Name() is name, 0 when there is none.
RECURSIVE FindSubFrom(_, _, _)
FindSubFrom(subs, name, i) ==
    IF i > Len(subs) THEN 0
    ELSE IF Cmd(subs[i]).name = name THEN i
    ELSE FindSubFrom(subs, name, i + 1)

FindSub(subs, name) == FindSubFrom(subs, name, 1)

\* args[1:], what the earlier run over a Tree passed down.
ChildArgsByArgs(args, posargs) == Tail(args)

\* f.Args() passed down whole, the selector still in it.
ChildArgsKeepSelector(args, posargs) == posargs

\* f.Args()[1:]
ChildArgs(args, posargs) == Tail(posargs)

\* fullname + " " + subcmd.Name()
ChildFullname(fullname, name) == fullname \o " " \o name

\* f.Args() with the flag tokens still in it.
LeafArgsRaw(args, posargs) == args

\* cmd.Run(ctx, f.Args())
LeafArgs(args, posargs) == posargs

\* The parse error left unchecked.
AfterParseErrIgnored(err, version) == IF version THEN "version" ELSE "dispatch"

\* The version test placed before the parse error test.
AfterParseVersionFirst(err, version) ==
    IF version THEN "version" ELSE IF err # "" THEN "parsefail" ELSE "dispatch"

\* if err != nil { return 1 }; if *version { ...; return 0 }; switch ...
AfterParse(err, version) ==
    IF err # "" THEN "parsefail" ELSE IF version THEN "version" ELSE "dispatch"

\* ctx = context.WithValue(ctx, usageKey{}, f.Usage): the usage of this
\* node's own flag set, rebound at every call.
HelpOf(fullname, id) == HelpBlock(fullname, id, Formal(fullname, id))

\* What f.Parse wrote while failing: failf prints the error (the help
\* request prints none) and both call the flag set's Usage.
ParseOutput(fullname, id, p) ==
    IF p.usage = 0 THEN <<>>
    ELSE (IF p.err = ErrHelp THEN <<>> ELSE <<FlagLine(p.err)>>)
         \o <<HelpOut(HelpBlock(fullname, id, Formal(fullname, id)))>>

\* run after f.Parse(args) returned p: what the call writes, the values of
\* the bound variables after it, and how it ends (kind): a parse failure,
\* the version, a leaf to invoke, a missing or unknown subcommand, or a
\* child to resolve.
Dispatch(id, fullname, args, p) ==
    LET after  == AfterParse(p.err, p.st[VersionVar])
        name   == RequestedName(args, p.rest)
        found  == FindSub(Cmd(id).subs, name)
        base   == [kind |-> after, bound |-> [v \in Vars |-> p.st[v]],
                   err |-> p.err, version |-> p.st[VersionVar],
                   out |-> <<>>, errout |-> ParseOutput(fullname, id, p),
                   posargs |-> p.rest,
                   next |-> id, nextArgs |-> <<>>, nextFullname |-> fullname,
                   status |-> 1,
                   usageBy |-> IF p.usage = 0 THEN <<>> ELSE <<"parse">>]
    IN  IF after = "parsefail" THEN
            base
        ELSE IF after = "version" THEN
            [base EXCEPT !.out = <<Version \o "\n">>, !.status = 0]
        ELSE IF Cmd(id).kind = LeafKind THEN
            [base EXCEPT !.kind = "leaf", !.nextArgs = LeafArgs(args, p.rest)]
        ELSE IF MissingSubcommand(args, p.rest) THEN
            [base EXCEPT !.kind = "missing",
                         !.errout = @ \o Helpf("please provide a subcommand",
                                               HelpOf(fullname, id)),
                         !.usageBy = Append(@, "helpf")]
        ELSE IF found # 0 THEN
            [base EXCEPT !.kind = "recurse",
                         !.next = Cmd(id).subs[found],
                         !.nextArgs = ChildArgs(args, p.rest),
                         !.nextFullname =
                             ChildFullname(fullname, Cmd(Cmd(id).subs[found]).name)]
        ELSE
            [base EXCEPT !.kind = "unknown",
                         !.errout = @ \o Helpf("unknown subcommand: " \o Quote(name),
                                               HelpOf(fullname, id)),
                         !.usageBy = Append(@, "helpf")]

\* f := initFlagSet(fullname, cmd); the version flag at the root;
\* err := f.Parse(args)
ParseFor(id, fullname, args, bound) ==
    Parse(Formal(fullname, id),
          Register(Formal(fullname, id),
                   [v \in Vars \cup {VersionVar} |->
                       IF v = VersionVar THEN FALSE ELSE bound[v]], 1),
          args)

(***************************************************************************)
(* The state of one process: the dispatch of one argument list.            *)
(***************************************************************************)
VARIABLES
    pc,        \* where the process is: "Run", "run", "leaf", "returned", "exit"
    osArgs,    \* os.Args[1:]
    cur,       \* the cmd of the pending run call
    fullname,  \* ctx.Value(fullnameKey{}) of the pending call
    rest,      \* the args of the pending call (run or the leaf's Run)
    bound,     \* the struct fields the flags are bound to
    block,     \* the help block of the usage bound in ctx (usageKey{})
    stdout,    \* what was written to os.Stdout
    stderr,    \* what was written to os.Stderr
    ret,       \* <<the status the outermost run returned>>, <<>> before
    status,    \* <<the status given to os.Exit>>, <<>> before
    calls,     \* history: the run calls made, in order
    runs,      \* history: the invocations of a leaf's Run, in order
    tree,      \* the registered Tree nodes: path of names -> "Leaf" / "Branch"
    open,      \* the branches whose Branch callback is running, innermost last
    regs,      \* history: the registrations that succeeded, in order
    attempt,   \* history: <<the last registration call or callback return>>
    panic      \* <<the message of the panic>>, <<>> when none

\* The state of the dispatch and the state of the tree under construction.
dvars ==
    <<pc, osArgs, cur, fullname, rest, bound, block, stdout, stderr, ret,
      status, calls, runs>>

tvars == <<tree, open, regs, attempt, panic>>

vars == <<dvars, tvars>>

\* No status yet: ret and status hold at most one integer.
NoStatus == <<>>

Init ==
    /\ pc = "Run"
    /\ osArgs \in ArgLists
    /\ cur = RootId
    /\ fullname = ""
    /\ rest = <<>>
    /\ bound = ZeroBound
    /\ block = NoBlock
    /\ stdout = <<>>
    /\ stderr = <<>>
    /\ ret = NoStatus
    /\ status = NoStatus
    /\ calls = <<>>
    /\ runs = <<>>
    /\ tree = <<>> /\ open = <<>> /\ regs = <<>> /\ attempt = <<>> /\ panic = <<>>

\* Run(ctx, cmd) up to its call of run: the full name is the root's name.
Run ==
    /\ pc = "Run"
    /\ pc' = "run"
    /\ cur' = RootId
    /\ fullname' = Cmd(RootId).name
    /\ rest' = osArgs
    /\ UNCHANGED <<osArgs, bound, block, stdout, stderr, ret, status, calls, runs>>
    /\ UNCHANGED tvars

\* One call of run(ctx, args, cmd); a matched child is resolved by the next.
run ==
    /\ pc = "run"
    /\ \E p \in {ParseFor(cur, fullname, rest, bound)} :
       \E r \in {Dispatch(cur, fullname, rest, p)} :
       /\ bound' = r.bound
       /\ block' = HelpOf(fullname, cur)
       /\ stdout' = stdout \o r.out
       /\ stderr' = stderr \o r.errout
       /\ calls' = Append(calls,
                     [cmd |-> cur, fullname |-> fullname, args |-> rest,
                      err |-> r.err, version |-> r.version,
                      kind |-> r.kind, posargs |-> r.posargs,
                      usageBy |-> r.usageBy])
       /\ IF r.kind = "recurse" THEN
              /\ pc' = "run"
              /\ cur' = r.next
              /\ fullname' = r.nextFullname
              /\ rest' = r.nextArgs
              /\ ret' = ret
          ELSE IF r.kind = "leaf" THEN
              /\ pc' = "leaf"
              /\ rest' = r.nextArgs
              /\ UNCHANGED <<cur, fullname, ret>>
          ELSE
              /\ pc' = "returned"
              /\ ret' = <<r.status>>
              /\ UNCHANGED <<cur, fullname, rest>>
    /\ UNCHANGED <<osArgs, status, runs>>
    /\ UNCHANGED tvars

\* How the external ls process ends: it ran, it could not be started, or
\* waiting for it failed with something else than an exit error.
ExecOutcomes == {"ok", "startfail", "waitfail"}

\* lsCmd.Run(ctx, args) of the example program, the Run of every leaf here.
lsCmdRun ==
    /\ pc = "leaf"
    /\ \E outcome \in ExecOutcomes :
         \E fail \in {bound["rootCmd.fail"]} :
         LET r    == IF fail # -1 THEN [status |-> fail, errout |-> <<>>]
                     ELSE IF Len(rest) # 1
                     THEN [status |-> 1, errout |-> Helpf("directory required", block)]
                     ELSE IF outcome = "startfail"
                     THEN [status |-> 1, errout |-> <<LogLine("failed to run")>>]
                     ELSE IF outcome = "waitfail"
                     THEN [status |-> 1, errout |-> <<LogLine("failed to wait")>>]
                     ELSE [status |-> 0, errout |-> <<>>]
         IN  /\ stderr' = stderr \o r.errout
             /\ ret' = <<r.status>>
             /\ runs' = Append(runs, [cmd |-> cur, args |-> rest, bound |-> bound,
                                      status |-> r.status])
    /\ pc' = "returned"
    /\ UNCHANGED <<osArgs, cur, fullname, rest, bound, block, stdout, status, calls>>
    /\ UNCHANGED tvars

\* return cmd.Run(...), return run(...): every frame hands the status up
\* as it got it; a dispatcher that reported only success or failure.
ExitStatusClamped(s) == IF s = 0 THEN 0 ELSE 1

\* status := run(ctx, os.Args[1:], cmd)
ExitStatus(s) == s

\* os.Exit(status)
Exit ==
    /\ pc = "returned"
    /\ pc' = "exit"
    /\ status' = <<ExitStatus(ret[1])>>
    /\ UNCHANGED <<osArgs, cur, fullname, rest, bound, block, stdout, stderr, ret,
                   calls, runs>>
    /\ UNCHANGED tvars

Next == Run \/ run \/ lsCmdRun \/ Exit

Spec == Init /\ [][Next]_vars

\* The process is one thread that runs each statement it reaches: Run calls
\* run, run returns or calls the next run or the leaf's Run, os.Exit is
\* reached once run returned; the leaf's Run is taken to return.
Fairness ==
    /\ WF_vars(Run)
    /\ WF_vars(run)
    /\ WF_vars(lsCmdRun)
    /\ WF_vars(Exit)

\* The dispatches of the argument lists of at most MaxLiveArgs tokens.
LiveInit ==
    /\ pc = "Run"
    /\ osArgs \in SeqsUpTo(Tokens, MaxLiveArgs)
    /\ cur = RootId
    /\ fullname = ""
    /\ rest = <<>>
    /\ bound = ZeroBound
    /\ block = NoBlock
    /\ stdout = <<>>
    /\ stderr = <<>>
    /\ ret = NoStatus
    /\ status = NoStatus
    /\ calls = <<>>
    /\ runs = <<>>
    /\ tree = <<>> /\ open = <<>> /\ regs = <<>> /\ attempt = <<>> /\ panic = <<>>

SpecLive == LiveInit /\ [][Next]_vars /\ Fairness

(***************************************************************************)
(* Properties of the dispatcher, checked under Spec.                       *)
(***************************************************************************)
Finished == pc \in {"returned", "exit"}

\* The names of the declared children of a command, in declaration order.
ChildNames(id) == [j \in 1..Len(Cmd(id).subs) |-> Cmd(Cmd(id).subs[j]).name]

\* The help block of the node of call c, from the node's declaration.
BlockOfCall(c) ==
    HelpBlock(c.fullname, c.cmd,
              Cmd(c.cmd).flags \o (IF c.cmd = RootId THEN <<VersionFlag>> ELSE <<>>))

\* The tokens of call c that its flag parsing consumed.
FlagRegion(c) ==
    {c.args[k] : k \in 1..(Len(c.args) - Len(c.posargs))}

VersionTokens == {"-version", "--version"}

IsFlagToken(t) == Len(t) >= 2 /\ Ch(t, 1) = "-" /\ t # "--"

HelpCount == Len(SelectSeq(stderr, LAMBDA e : e.kind = "help"))

\* C1: at every branch node reached by dispatch (root or nested) whose flags
\* parsed without a version request and whose first positional argument is
\* the name of no declared child, the call is the last one, it returns 1,
\* what is written to the error stream is the message
\* unknown subcommand: "<first positional argument>" followed by the help
\* block of that same node, and no leaf's Run is invoked.
C1_UnknownSubcommand ==
    \A i \in 1..Len(calls) :
        LET c == calls[i] IN
        ( /\ Cmd(c.cmd).kind = BranchKind
          /\ c.err = "" /\ ~c.version
          /\ Len(c.posargs) >= 1
          /\ \A j \in 1..Len(Cmd(c.cmd).subs) : ChildNames(c.cmd)[j] # c.posargs[1] )
        => /\ i = Len(calls)
           /\ Finished
           /\ ret = <<1>>
           /\ (pc = "exit" => status = <<1>>)
           /\ runs = <<>>
           /\ stdout = <<>>
           /\ stderr = <<LogLine("unknown subcommand: " \o Quote(c.posargs[1])),
                         HelpOut(BlockOfCall(c))>>

\* C1 witness: the root, given a flag with its value and then a name that is
\* no child of it, has exited with status 1.
C1_Witness ==
    /\ pc = "exit" /\ status = <<1>>
    /\ osArgs = <<"-fail", "3", "lsx">>
    /\ Len(calls) = 1 /\ calls[1].posargs = <<"lsx">>

\* C2: at every branch node reached by dispatch whose flags parsed without a
\* version request and left no positional argument, the call is the last
\* one, it returns 1, what is written to the error stream is
\* "please provide a subcommand" followed by the help block of that node,
\* and no leaf's Run is invoked; so it is for the root given no argument.
C2_MissingSubcommand ==
    \A i \in 1..Len(calls) :
        LET c == calls[i] IN
        ( /\ Cmd(c.cmd).kind = BranchKind
          /\ c.err = "" /\ ~c.version
          /\ Len(c.posargs) = 0 )
        => /\ i = Len(calls)
           /\ Finished
           /\ ret = <<1>>
           /\ (pc = "exit" => status = <<1>>)
           /\ runs = <<>>
           /\ stdout = <<>>
           /\ stderr = <<LogLine("please provide a subcommand"),
                         HelpOut(BlockOfCall(c))>>

\* C2 witness: the root, given only a valid flag and its value, has exited
\* with status 1.
C2_Witness ==
    /\ pc = "exit" /\ status = <<1>>
    /\ osArgs = <<"-fail", "3">>
    /\ Len(calls) = 1 /\ calls[1].posargs = <<>> /\ calls[1].err = ""

\* A version token stands among the flag tokens the root's parse meets: every
\* token before it is a flag token.
VersionFlagGiven ==
    \E i \in 1..Len(osArgs) :
        /\ osArgs[i] \in VersionTokens
        /\ \A j \in 1..(i - 1) : IsFlagToken(osArgs[j])

\* C3 as stated: a version flag in the root's arguments makes the dispatch
\* write the version and return 0 whatever the other tokens are, without
\* invoking a leaf.
C3_VersionShortCircuits ==
    (pc = "exit" /\ VersionFlagGiven)
    => (status = <<0>> /\ stdout = <<Version \o "\n">> /\ runs = <<>>)

\* C3 amended: when the root's flag parsing succeeds with the version flag
\* set, the dispatch writes the version and a newline to standard output,
\* returns 0 whatever positional arguments follow, and invokes no leaf; when
\* the root's flag parsing fails, it returns 1 and writes no version.
C3_VersionAfterParse ==
    Len(calls) >= 1 =>
        LET c == calls[1] IN
        /\ (c.err = "" /\ c.version)
           => /\ Len(calls) = 1
              /\ Finished
              /\ ret = <<0>>
              /\ (pc = "exit" => status = <<0>>)
              /\ stdout = <<Version \o "\n">>
              /\ stderr = <<>>
              /\ runs = <<>>
        /\ c.err # ""
           => /\ Len(calls) = 1
              /\ ret = <<1>>
              /\ stdout = <<>>
              /\ runs = <<>>

\* C3 witness: the version flag before a name that is no child of the root.
C3_Witness ==
    /\ pc = "exit" /\ status = <<0>>
    /\ osArgs = <<"--version", "lsx">>
    /\ stdout = <<Version \o "\n">>

\* C4: no call of run on a node other than the root ends in the version
\* output, whatever the node's name and depth; a version token as the first
\* argument of such a node, which does not declare the flag, fails its
\* parse ("flag provided but not defined"): the call is the last one, it
\* returns 1, nothing is written to standard output and no leaf is invoked.
C4_VersionOnlyAtRoot ==
    /\ stdout # <<>> => (Len(calls) = 1 /\ calls[1].cmd = RootId)
    /\ \A i \in 1..Len(calls) :
        LET c == calls[i] IN
        (i > 1 \/ c.cmd # RootId)
        => /\ c.kind # "version"
           /\ ~c.version
           /\ (Len(c.args) >= 1 /\ c.args[1] \in VersionTokens)
              => /\ c.err = "flag provided but not defined: -version"
                 /\ c.kind = "parsefail"
                 /\ i = Len(calls)
                 /\ ret = <<1>>
                 /\ stdout = <<>>
                 /\ runs = <<>>

\* C4 witness: the nested leaf that bears the root's name, given -version.
C4_Witness ==
    /\ pc = "exit" /\ status = <<1>>
    /\ osArgs = <<"sub", "app", "-version">>
    /\ Len(calls) = 3 /\ calls[3].cmd = "sub_app" /\ calls[3].kind = "parsefail"

\* t is what is left of s after some of its first elements.
IsSuffix(t, s) ==
    Len(t) <= Len(s) /\ t = SubSeq(s, Len(s) - Len(t) + 1, Len(s))

\* The variable the leaf's -l flag is bound to.
LongVar(id) == id \o ".long"

\* C5: a leaf's Run is invoked once, with exactly the tokens that remain
\* after the leaf's own flag tokens, in order, and with the flags bound:
\* its -l is true exactly when -l stands among its flag tokens, and the
\* root's -fail holds the value given before the subcommand (its default
\* otherwise).  So ls -l /tmp invokes ls with <</tmp>> and -l true, and
\* -fail 3 ls /tmp invokes it with rootCmd.fail = 3.
C5_LeafFlagsAndArgs ==
    /\ \A k \in 1..Len(runs) :
        LET r == runs[k]
            c == calls[Len(calls)]
        IN  /\ Len(runs) = 1
            /\ c.kind = "leaf" /\ r.cmd = c.cmd
            /\ Cmd(r.cmd).kind = LeafKind
            /\ r.args = c.posargs
            /\ IsSuffix(r.args, c.args) /\ IsSuffix(r.args, osArgs)
            /\ \A t \in FlagRegion(c) : IsFlagToken(t) \/ t = "--"
            /\ (Len(Cmd(r.cmd).flags) > 0)
               => (r.bound[LongVar(r.cmd)] = ("-l" \in FlagRegion(c)))
            /\ r.bound["rootCmd.fail"] =
                  (IF "-fail" \in FlagRegion(calls[1]) THEN 3 ELSE -1)
    /\ (Finished /\ osArgs = <<"ls", "-l", "/tmp">>)
       => /\ Len(runs) = 1
          /\ runs[1].cmd = "ls" /\ runs[1].args = <<"/tmp">>
          /\ runs[1].bound["ls.long"] = TRUE
    /\ (Finished /\ osArgs = <<"-fail", "3", "ls", "/tmp">>)
       => /\ Len(runs) = 1
          /\ runs[1].cmd = "ls" /\ runs[1].args = <<"/tmp">>
          /\ runs[1].bound["rootCmd.fail"] = 3

\* C5 witness: ls -l /tmp has run ls with the one argument and -l bound.
C5_Witness ==
    /\ pc = "exit"
    /\ osArgs = <<"ls", "-l", "/tmp">>
    /\ Len(runs) = 1 /\ runs[1].args = <<"/tmp">> /\ runs[1].bound["ls.long"]

\* C6: when a leaf's Run was invoked, the status given to os.Exit is the
\* status that Run returned, whatever integer it is.
C6_StatusVerbatim ==
    (pc = "exit" /\ Len(runs) > 0)
    => (Len(runs) = 1 /\ status = <<runs[1].status>> /\ ret = status)

\* C6 witness: a leaf returned a status other than 0 and 1 and the process
\* exited with it.
C6_Witness ==
    /\ pc = "exit"
    /\ Len(runs) = 1 /\ runs[1].status = 3
    /\ status = <<3>>

\* C9: every help block written for a branch lists exactly the declared
\* children of the node that wrote it, one row per child, in declaration
\* order.
C9_SubcommandOrder ==
    \A k \in 1..Len(stderr) :
        (stderr[k].kind = "help" /\ Len(calls) > 0)
        => LET b == stderr[k].block
               c == calls[Len(calls)]
           IN  /\ b.branch = (Cmd(c.cmd).kind = BranchKind)
               /\ b.branch
                  => /\ Len(b.subcommands) = Len(Cmd(c.cmd).subs)
                     /\ [j \in 1..Len(b.subcommands) |-> b.subcommands[j].name]
                          = ChildNames(c.cmd)

\* C9 witness: the help of the nested branch, whose children are declared
\* ls and then app, was written.
C9_Witness ==
    \E k \in 1..Len(stderr) :
        /\ stderr[k].kind = "help"
        /\ stderr[k].block.branch
        /\ Len(stderr[k].block.subcommands) = 2
        /\ stderr[k].block.subcommands[1].name = "ls"
        /\ stderr[k].block.subcommands[2].name = "app"

\* C10: a call of run whose flag parsing fails (an undeclared flag, a
\* malformed or missing value, or -h) is the last call, returns 1, has had
\* its node's usage called once and by the parse alone (the one help block
\* written is the node's), writes nothing to standard output and invokes
\* no leaf.
C10_ParseFailure ==
    \A i \in 1..Len(calls) :
        LET c == calls[i] IN
        c.err # ""
        => /\ i = Len(calls)
           /\ c.kind = "parsefail"
           /\ Finished
           /\ ret = <<1>>
           /\ (pc = "exit" => status = <<1>>)
           /\ c.usageBy = <<"parse">>
           /\ HelpCount = 1
           /\ stderr[Len(stderr)] = HelpOut(BlockOfCall(c))
           /\ stdout = <<>>
           /\ runs = <<>>

\* C10 witness: a nested leaf asked for -h.
C10_Witness ==
    /\ pc = "exit" /\ status = <<1>>
    /\ Len(calls) = 3 /\ calls[3].cmd = "sub_ls" /\ calls[3].err = ErrHelp
    /\ calls[3].args = <<"-l", "-h">>

\* C11: a call of run that follows another resolves a declared child of the
\* earlier call's node, the one named by the first positional argument of
\* that call; its arguments are exactly the positional arguments after that
\* selector, in order and unchanged, so none of the parent's flag tokens or
\* flag values, and its full name is the parent's, a space and the child's
\* name.  So -fail 3 ls /tmp resolves ls with <</tmp>> as "app ls", and
\* sub ls /tmp resolves the nested ls with <</tmp>> as "app sub ls".
C11_SelectorConsumed ==
    /\ \A i \in 1..(Len(calls) - 1) :
        LET c == calls[i]
            d == calls[i + 1]
            n == Len(c.args) - Len(c.posargs)
        IN  /\ c.kind = "recurse"
            /\ Len(c.posargs) >= 1
            /\ \E j \in 1..Len(Cmd(c.cmd).subs) : Cmd(c.cmd).subs[j] = d.cmd
            /\ Cmd(d.cmd).name = c.posargs[1]
            /\ c.args[n + 1] = c.posargs[1]
            /\ d.args = SubSeq(c.args, n + 2, Len(c.args))
            /\ d.args = SubSeq(c.posargs, 2, Len(c.posargs))
            /\ d.fullname = c.fullname \o " " \o Cmd(d.cmd).name
    /\ (Len(calls) >= 2 /\ osArgs = <<"-fail", "3", "ls", "/tmp">>)
       => /\ calls[2].cmd = "ls" /\ calls[2].args = <<"/tmp">>
          /\ calls[2].fullname = "app ls"
    /\ (Len(calls) >= 3 /\ osArgs = <<"sub", "ls", "/tmp">>)
       => /\ calls[3].cmd = "sub_ls" /\ calls[3].args = <<"/tmp">>
          /\ calls[3].fullname = "app sub ls"

\* C11 witness: the root, given a flag with its value before the selector,
\* has resolved the child with what follows the selector.
C11_Witness ==
    /\ osArgs = <<"-fail", "3", "ls", "/tmp">>
    /\ Len(calls) = 2
    /\ calls[1].kind = "recurse"
    /\ calls[2].cmd = "ls" /\ calls[2].args = <<"/tmp">>
    /\ calls[2].fullname = "app ls"

\* The number of run calls made names the depth of the node whose usage is
\* bound: the first call resolves the root, every later one a descendant.
AtRoot == Len(calls) = 1 /\ calls[1].cmd = RootId

\* C12: every help block written, whether by a failed parse, by Helpf in
\* run or by Helpf in a leaf's Run, and the usage bound for the node under
\* resolution, carries the Version line exactly when the node is the root:
\* the root's help has the line with the version string, the help of a
\* node below it has none, at any depth and also when the node bears the
\* root's name.
C12_VersionLineOnlyAtRoot ==
    /\ \A k \in 1..Len(stderr) :
        stderr[k].kind = "help"
        => /\ Len(calls) >= 1
           /\ stderr[k].block.usage
                = calls[Len(calls)].fullname \o " "
                    \o usage(calls[Len(calls)].cmd,
                             Formal(calls[Len(calls)].fullname, calls[Len(calls)].cmd))
           /\ stderr[k].block.version = (IF AtRoot THEN <<Version>> ELSE <<>>)
    /\ (Len(calls) >= 1 /\ pc # "run")
       => block.version = (IF AtRoot THEN <<Version>> ELSE <<>>)

\* C12 witness: the help of the nested leaf that bears the root's name was
\* written, without the Version line.
C12_Witness ==
    /\ pc = "exit"
    /\ Len(calls) = 3 /\ calls[3].cmd = "sub_app"
    /\ calls[3].fullname = "app sub app"
    /\ \E k \in 1..Len(stderr) :
         stderr[k].kind = "help" /\ stderr[k].block.version = <<>>

\* How a finished dispatch ended: the version written and nothing else, one
\* leaf's Run invoked, or a usage error (a failed parse, a missing or an
\* unknown subcommand: one help block and status 1).
EndedInVersion ==
    /\ stdout = <<Version \o "\n">> /\ runs = <<>> /\ stderr = <<>>
    /\ ret = <<0>> /\ calls[Len(calls)].kind = "version"

EndedInLeaf ==
    /\ Len(runs) = 1 /\ stdout = <<>>
    /\ calls[Len(calls)].kind = "leaf" /\ runs[1].cmd = calls[Len(calls)].cmd
    /\ ret = <<runs[1].status>>

EndedInUsageError ==
    /\ runs = <<>> /\ stdout = <<>> /\ HelpCount = 1
    /\ ret = <<1>> /\ calls[Len(calls)].kind \in {"parsefail", "missing", "unknown"}

\* At most 1 + len(os.Args[1:]) calls of run, each with a strictly shorter
\* argument list than the one before; nothing is written to standard
\* output and no leaf is invoked before the last call; a finished dispatch
\* ended in exactly one of the three ways and has a status.
Bounded ==
    /\ Len(calls) <= 1 + Len(osArgs)
    /\ Len(calls) >= 1 => calls[1].args = osArgs
    /\ \A i \in 1..(Len(calls) - 1) :
         /\ Len(calls[i + 1].args) < Len(calls[i].args)
         /\ calls[i].kind = "recurse"
    /\ ~Finished => (stdout = <<>> /\ runs = <<>> /\ ret = NoStatus)
    /\ Finished
       => /\ Len(calls) >= 1 /\ Len(ret) = 1
          /\ Cardinality({w \in {"version", "leaf", "usage"} :
                 \/ w = "version" /\ EndedInVersion
                 \/ w = "leaf" /\ EndedInLeaf
                 \/ w = "usage" /\ EndedInUsageError}) = 1
    /\ pc = "exit" => status = ret

\* C13: every dispatch, the leaf's Run returning, reaches os.Exit with a
\* status, after at most 1 + len(args) calls of run, each recursion into a
\* child with a strictly shorter argument list, and ends in exactly one of
\* the version written, one leaf invoked, or one usage error returned.
C13_Terminates == []Bounded /\ <>(pc = "exit" /\ Len(status) = 1)

\* C13 witness: a dispatch through both levels of the tree took
\* 1 + len(args) calls of run, invoked the nested leaf and exited.
C13_Witness ==
    /\ pc = "exit" /\ Len(status) = 1
    /\ Len(osArgs) = 2 /\ Len(calls) = 3
    /\ Len(runs) = 1 /\ runs[1].cmd = "sub_ls"

(***************************************************************************)
(* The tree builder: Tree.Branch and Tree.Leaf register commands into the  *)
(* map of their parent, and Run dispatches the registered tree with the    *)
(* run of that version.  A node is known by the path of names that leads   *)
(* to it; <<>> is the Tree the program declares and hands to Run.  The     *)
(* registered commands have no flags and no description.                   *)
(***************************************************************************)
TreeNames == {"app", "ls"}

TreeTokens == {"app", "ls", "-version"}

TreeArgLists == SeqsUpTo(TreeTokens, MaxTreeArgs)

\* The keys of the subs map of the node at path.
Children(tr, path) ==
    {q \in DOMAIN tr : Len(q) = Len(path) + 1 /\ SubSeq(q, 1, Len(path)) = path}

\* The Trees a registration can be made on: the program's own and the ones
\* handed to the Branch callbacks that have begun.
Handles == {<<>>} \cup {q \in DOMAIN tree : tree[q] = BranchKind}

\* A check that looks into the program's own Tree instead of the parent.
AlreadyRegisteredAtTop(tr, parent, name) == <<name>> \in DOMAIN tr

\* _, ok := m.subs[name]
AlreadyRegistered(tr, parent, name) == Append(parent, name) \in DOMAIN tr

\* No check of the children after the callback, as in Mux.Sub.
BranchIsEmptyUnchecked(tr, path) == FALSE

\* len(m2.subs) == 0
BranchIsEmpty(tr, path) == Children(tr, path) = {}

DuplicateMsg(name) == name \o " is already registered by another command"

EmptyBranchMsg(name) ==
    "branch command " \o name \o " must register at least one command"

\* Whether the registrations made so far hold name under parent.
Registered(parent, name) ==
    \E i \in 1..Len(regs) : regs[i].parent = parent /\ regs[i].name = name

\* What a registration call does to the state, for both kinds.
Register2(kind, parent, name) ==
    /\ attempt' = <<[op |-> kind, parent |-> parent, name |-> name,
                     dup |-> Registered(parent, name), nchildren |-> 0]>>
    /\ IF AlreadyRegistered(tree, parent, name)
       THEN /\ pc' = "panicked"
            /\ panic' = <<DuplicateMsg(name)>>
            /\ UNCHANGED <<tree, open, regs>>
       ELSE /\ tree' = (Append(parent, name) :> kind) @@ tree
            /\ regs' = Append(regs, [parent |-> parent, name |-> name, kind |-> kind])
            /\ open' = IF kind = BranchKind THEN Append(open, Append(parent, name))
                       ELSE open
            /\ UNCHANGED <<pc, panic>>

\* (m *Tree) Leaf(leaf)
TreeLeaf ==
    /\ pc = "build" /\ Len(regs) < MaxRegs
    /\ \E parent \in Handles, name \in TreeNames : Register2(LeafKind, parent, name)
    /\ UNCHANGED <<osArgs, cur, fullname, rest, bound, block, stdout, stderr, ret,
                   status, calls, runs>>

\* (m *Tree) Branch(branch) up to its call of branch.Branch(m2)
TreeBranch ==
    /\ pc = "build" /\ Len(regs) < MaxRegs
    /\ \E parent \in Handles, name \in TreeNames : Register2(BranchKind, parent, name)
    /\ UNCHANGED <<osArgs, cur, fullname, rest, bound, block, stdout, stderr, ret,
                   status, calls, runs>>

\* (m *Tree) Branch(branch) from the return of branch.Branch(m2), for the
\* innermost running callback.
TreeBranchReturn ==
    /\ pc = "build" /\ Len(open) > 0
    /\ LET path == open[Len(open)] IN
       /\ attempt' = <<[op |-> "return", parent |-> path, name |-> path[Len(path)],
                        dup |-> FALSE,
                        nchildren |-> Cardinality({i \in 1..Len(regs) :
                                                     regs[i].parent = path})]>>
       /\ IF BranchIsEmpty(tree, path)
          THEN /\ pc' = "panicked"
               /\ panic' = <<EmptyBranchMsg(path[Len(path)])>>
               /\ open' = open
          ELSE /\ open' = SubSeq(open, 1, Len(open) - 1)
               /\ UNCHANGED <<pc, panic>>
    /\ UNCHANGED <<tree, regs>>
    /\ UNCHANGED <<osArgs, cur, fullname, rest, bound, block, stdout, stderr, ret,
                   status, calls, runs>>

\* Run(ctx, m Tree) up to its call of run, once the registrations returned.
TreeRun ==
    /\ pc = "build" /\ Len(open) = 0
    /\ IF Children(tree, <<>>) = {}
       THEN /\ pc' = "panicked"
            /\ panic' = <<"no command registered">>
            /\ UNCHANGED <<cur, fullname, rest>>
       ELSE IF Cardinality(Children(tree, <<>>)) > 1
       THEN /\ pc' = "panicked"
            /\ panic' = <<"cannot register multiple commands on root">>
            /\ UNCHANGED <<cur, fullname, rest>>
       ELSE /\ pc' = "treerun"
            /\ cur' = CHOOSE q \in Children(tree, <<>>) : TRUE
            /\ fullname' = cur'[1]
            /\ rest' = osArgs
            /\ panic' = panic
    /\ UNCHANGED <<tree, open, regs, attempt>>
    /\ UNCHANGED <<osArgs, bound, block, stdout, stderr, ret, status, calls, runs>>

\* The name of the registered command at path: spec.Name().
NameAt(path) == path[Len(path)]

\* The orders in which a range over the map S may visit its keys.
Perms(S) ==
    {f \in [1..Cardinality(S) -> S] :
        \A i, j \in 1..Cardinality(S) : i # j => f[i] # f[j]}

\* The flag set of a registered command: no flag of its own, and the
\* version flag where fullname == cmd.spec.Name().
TreeFormal(fname, path) ==
    IF fname = NameAt(path) THEN <<VersionFlag>> ELSE <<>>

\* usage(cmd Tree, flagCount): "[flags] ", then the leaf's Usage() or
\* "<subcmd> ", trimmed.
TreeUsage(tr, path, flagCount) ==
    Join((IF flagCount > 0 THEN <<"[flags]">> ELSE <<>>)
         \o (IF tr[path] = LeafKind THEN <<"<dir>">> ELSE <<"<subcmd>">>))

\* The block the Usage closure of that version writes: the version line is
\* always there, and the rows follow the order of the range over cmd.subs.
TreeHelpBlock(tr, path, fname, order) ==
    [usage       |-> fname \o " "
                       \o TreeUsage(tr, path, countFlags(TreeFormal(fname, path))),
     version     |-> <<Version>>,
     desc        |-> <<>>,
     flags       |-> FlagNames(TreeFormal(fname, path)),
     branch      |-> Len(order) > 0,
     subcommands |-> [i \in 1..Len(order) |->
                        [name |-> NameAt(order[i]),
                         usage |-> TreeUsage(tr, order[i], 0),
                         summary |-> ""]]]

\* Help(ctx): the usage bound in ctx, and status 1.
TreeHelp(msg, b) == <<LogLine(msg), HelpOut(b)>>

\* f := initFlagSet(fname, cmd); the version flag; err := f.Parse(args)
TreeParseFor(path, fname, args) ==
    Parse(TreeFormal(fname, path),
          Register(TreeFormal(fname, path), [v \in {VersionVar} |-> FALSE], 1),
          args)

\* run(ctx, args, cmd Tree) after f.Parse(args) returned p.
TreeDispatch(tr, path, fname, args, p, order) ==
    LET b     == TreeHelpBlock(tr, path, fname, order)
        child == Append(path, Arg(p.rest, 0))
        base  == [kind |-> "parsefail", err |-> p.err, version |-> p.st[VersionVar],
                  out |-> <<>>,
                  errout |-> IF p.usage = 0 THEN <<>>
                             ELSE (IF p.err = ErrHelp THEN <<>> ELSE <<FlagLine(p.err)>>)
                                  \o <<HelpOut(b)>>,
                  posargs |-> p.rest, next |-> path, nextArgs |-> <<>>,
                  nextFullname |-> fname, status |-> 1,
                  usageBy |-> IF p.usage = 0 THEN <<>> ELSE <<"parse">>]
    IN  IF p.err # "" THEN
            base
        ELSE IF p.st[VersionVar] THEN
            [base EXCEPT !.kind = "version", !.out = <<Version \o "\n">>, !.status = 0]
        ELSE IF tr[path] = LeafKind THEN
            [base EXCEPT !.kind = "leaf", !.nextArgs = p.rest]
        ELSE IF Len(args) < 1 THEN
            [base EXCEPT !.kind = "missing",
                         !.errout = TreeHelp("please provide a subcommand", b),
                         !.usageBy = <<"help">>]
        ELSE IF child \notin Children(tr, path) THEN
            [base EXCEPT !.kind = "unknown",
                         !.errout = TreeHelp("unknown subcommand: " \o Quote(args[1]), b),
                         !.usageBy = <<"help">>]
        ELSE
            [base EXCEPT !.kind = "recurse",
                         !.next = child,
                         !.nextArgs = Tail(args),
                         !.nextFullname = fname \o " " \o NameAt(child)]

\* One call of run(ctx, args, cmd Tree).
treerun ==
    /\ pc = "treerun"
    /\ \E order \in Perms(Children(tree, cur)) :
       \E p \in {TreeParseFor(cur, fullname, rest)} :
       \E r \in {TreeDispatch(tree, cur, fullname, rest, p, order)} :
       /\ block' = TreeHelpBlock(tree, cur, fullname, order)
       /\ stdout' = stdout \o r.out
       /\ stderr' = stderr \o r.errout
       /\ calls' = Append(calls,
                     [cmd |-> cur, fullname |-> fullname, args |-> rest,
                      err |-> r.err, version |-> r.version,
                      kind |-> r.kind, posargs |-> r.posargs,
                      usageBy |-> r.usageBy])
       /\ IF r.kind = "recurse" THEN
              /\ pc' = "treerun"
              /\ cur' = r.next
              /\ fullname' = r.nextFullname
              /\ rest' = r.nextArgs
              /\ ret' = ret
          ELSE IF r.kind = "leaf" THEN
              /\ pc' = "treeleaf"
              /\ rest' = r.nextArgs
              /\ UNCHANGED <<cur, fullname, ret>>
          ELSE
              /\ pc' = "returned"
              /\ ret' = <<r.status>>
              /\ UNCHANGED <<cur, fullname, rest>>
    /\ UNCHANGED <<osArgs, bound, status, runs>>
    /\ UNCHANGED tvars

\* lsCmd.Run(ctx, args) of the example program written for the Tree.
TreeLeafRun ==
    /\ pc = "treeleaf"
    /\ \E outcome \in ExecOutcomes :
         LET r == IF Len(rest) # 1
                  THEN [status |-> 1,
                        errout |-> TreeHelp("you must provide a single argument", block)]
                  ELSE IF outcome = "startfail"
                  THEN [status |-> 1, errout |-> <<LogLine("failed to run")>>]
                  ELSE IF outcome = "waitfail"
                  THEN [status |-> 1, errout |-> <<LogLine("failed to wait")>>]
                  ELSE [status |-> 0, errout |-> <<>>]
         IN  /\ stderr' = stderr \o r.errout
             /\ ret' = <<r.status>>
             /\ runs' = Append(runs, [cmd |-> cur, args |-> rest, bound |-> bound,
                                      status |-> r.status])
    /\ pc' = "returned"
    /\ UNCHANGED <<osArgs, cur, fullname, rest, bound, block, stdout, status, calls>>
    /\ UNCHANGED tvars

TreeInit ==
    /\ pc = "build"
    /\ osArgs \in TreeArgLists
    /\ cur = <<>>
    /\ fullname = ""
    /\ rest = <<>>
    /\ bound = ZeroBound
    /\ block = NoBlock
    /\ stdout = <<>>
    /\ stderr = <<>>
    /\ ret = NoStatus
    /\ status = NoStatus
    /\ calls = <<>>
    /\ runs = <<>>
    /\ tree = <<>> /\ open = <<>> /\ regs = <<>> /\ attempt = <<>> /\ panic = <<>>

TreeNext ==
    TreeLeaf \/ TreeBranch \/ TreeBranchReturn \/ TreeRun \/ treerun \/ TreeLeafRun
    \/ Exit

SpecTree == TreeInit /\ [][TreeNext]_vars

(***************************************************************************)
(* Properties of the tree builder, checked under SpecTree.                 *)
(***************************************************************************)
\* C7: a registration (of a leaf or of a branch) whose name is the name of
\* a sibling registered before it, leaf or branch, panics, and a panic is
\* never followed by a dispatch; the names registered under one parent are
\* pairwise distinct.
C7_DuplicateSibling ==
    /\ \A i, j \in 1..Len(regs) :
         (i < j /\ regs[i].parent = regs[j].parent) => regs[i].name # regs[j].name
    /\ \A k \in 1..Len(attempt) :
         (attempt[k].op \in {LeafKind, BranchKind} /\ attempt[k].dup)
         => /\ pc = "panicked"
            /\ panic = <<DuplicateMsg(attempt[k].name)>>
    /\ pc = "panicked" => (calls = <<>> /\ ret = <<>> /\ status = <<>>)
    /\ Len(calls) > 0 => panic = <<>>

\* C7 witness: a branch registered under the name of a leaf registered
\* before it, under a nested parent, has panicked.
C7_Witness ==
    /\ pc = "panicked"
    /\ Len(attempt) = 1 /\ attempt[1].op = BranchKind /\ attempt[1].dup
    /\ Len(attempt[1].parent) = 1
    /\ tree[Append(attempt[1].parent, attempt[1].name)] = LeafKind

\* C8: a Branch callback that returns with no child registered on its
\* branch panics, and a panic is never followed by a dispatch; every
\* branch a run call is made on has at least one registered child.
C8_EmptyBranch ==
    /\ \A k \in 1..Len(attempt) :
         (attempt[k].op = "return" /\ attempt[k].nchildren = 0)
         => /\ pc = "panicked"
            /\ panic = <<EmptyBranchMsg(attempt[k].name)>>
            /\ calls = <<>> /\ ret = <<>> /\ status = <<>>
    /\ \A i \in 1..Len(calls) :
         tree[calls[i].cmd] = BranchKind
         => \E k \in 1..Len(regs) : regs[k].parent = calls[i].cmd

\* C8 witness: a nested branch whose callback registered nothing has
\* panicked.
C8_Witness ==
    /\ pc = "panicked"
    /\ Len(attempt) = 1 /\ attempt[1].op = "return" /\ attempt[1].nchildren = 0
    /\ Len(attempt[1].parent) = 2
    /\ panic = <<EmptyBranchMsg(attempt[1].name)>>

====
